---- MODULE Spec2Model ----
(***************************************************************************)
(* Sudoku solver (solver.py) and its /solve request handler (app.py).      *)
(*                                                                         *)
(* A JSON value is modelled as a record [kind, items, val]: kind is the    *)
(* Python type of the decoded value ("list", "dict", "int", "bool",        *)
(* "float"), items its elements when it is a container, val its numeric    *)
(* value when it is a number (True is 1).  Row and column indices are      *)
(* 0-based as in the source; sequences are 1-based, hence the +1.          *)
(***************************************************************************)
EXTENDS Integers, Sequences, FiniteSets, TLC

VARIABLES data, pc, board, original_board, stack, retval, response

vars == <<data, pc, board, original_board, stack, retval, response>>

(***************************************************************************)
(* Program constants                                                       *)
(***************************************************************************)
N == 9

BOX == 3

(***************************************************************************)
(* Bounds of the explored inputs                                           *)
(***************************************************************************)
NumBlank == 6

MaxDefects == 2

(***************************************************************************)
(* JSON values                                                             *)
(***************************************************************************)
Int_(v) == [kind |-> "int", items |-> <<>>, val |-> v]

Bool_(v) == [kind |-> "bool", items |-> <<>>, val |-> v]

Float_ == [kind |-> "float", items |-> <<>>, val |-> 0]

List_(xs) == [kind |-> "list", items |-> xs, val |-> 0]

\* the mapping {"rows": 9}
Dict_ == [kind |-> "dict", items |-> <<Int_(9)>>, val |-> 0]

None == [kind |-> "None", items |-> <<>>, val |-> 0]

isinstance_list(x) == x.kind = "list"

\* bool is a subclass of int
isinstance_int(x) == x.kind \in {"int", "bool"}

len(x) == Len(x.items)

\* board[row][col] of a validated board, as the number it compares equal to
At(b, row, col) == b.items[row + 1].items[col + 1].val

\* board[row][col] = num
SetCell(b, row, col, num) ==
    [b EXCEPT !.items[row + 1].items[col + 1] = Int_(num)]

\* the 9x9 numbers of a validated board
Vals(b) == [i \in 1..N |-> [j \in 1..N |-> b.items[i].items[j].val]]

(***************************************************************************)
(* solver.py: validate_board                                               *)
(***************************************************************************)
Msg(fmt, args) == [fmt |-> fmt, args |-> args]

NoMsg == Msg("None", <<>>)

\* for j, cell in enumerate(row), from index j on
RECURSIVE validate_cells(_, _, _)
validate_cells(row, i, j) ==
    IF j >= len(row) THEN <<TRUE, NoMsg>>
    ELSE LET cell == row.items[j + 1] IN
         IF ~isinstance_int(cell)
         THEN <<FALSE, Msg("Cell [{i}][{j}] must be an integer", <<i, j>>)>>
         ELSE IF cell.val < 0 \/ cell.val > N
         THEN <<FALSE, Msg("Cell [{i}][{j}] must be between 0 and 9", <<i, j>>)>>
         ELSE validate_cells(row, i, j + 1)

\* seeded fault: the shape of every row is checked before any cell
validate_rows_shapes_first(b, i) ==
    LET malformed == {k \in i..(len(b) - 1) :
                        \/ ~isinstance_list(b.items[k + 1])
                        \/ len(b.items[k + 1]) # N}
        first == CHOOSE k \in malformed : \A m \in malformed : k <= m
        bad == {k \in i..(len(b) - 1) : ~validate_cells(b.items[k + 1], k, 0)[1]}
        firstbad == CHOOSE k \in bad : \A m \in bad : k <= m
    IN  IF malformed # {}
        THEN IF ~isinstance_list(b.items[first + 1])
             THEN <<FALSE, Msg("Row {i} must be a list", <<first>>)>>
             ELSE <<FALSE, Msg("Row {i} must have 9 columns", <<first>>)>>
        ELSE IF bad # {}
        THEN validate_cells(b.items[firstbad + 1], firstbad, 0)
        ELSE <<TRUE, NoMsg>>

\* for i, row in enumerate(board), from index i on
RECURSIVE validate_rows(_, _)
validate_rows(b, i) ==
    IF i >= len(b) THEN <<TRUE, NoMsg>>
    ELSE LET row == b.items[i + 1] IN
         IF ~isinstance_list(row)
         THEN <<FALSE, Msg("Row {i} must be a list", <<i>>)>>
         ELSE IF len(row) # N
         THEN <<FALSE, Msg("Row {i} must have 9 columns", <<i>>)>>
         ELSE LET r == validate_cells(row, i, 0) IN
              IF ~r[1] THEN r ELSE validate_rows(b, i + 1)

\* seeded fault: the length is checked before the type
validate_board_len_first(b) ==
    IF len(b) # N THEN <<FALSE, Msg("Board must have 9 rows", <<>>)>>
    ELSE IF ~isinstance_list(b) THEN <<FALSE, Msg("Board must be a list", <<>>)>>
    ELSE validate_rows(b, 0)

validate_board(b) ==
    IF ~isinstance_list(b) THEN <<FALSE, Msg("Board must be a list", <<>>)>>
    ELSE IF len(b) # N THEN <<FALSE, Msg("Board must have 9 rows", <<>>)>>
    ELSE validate_rows(b, 0)

(***************************************************************************)
(* solver.py: is_valid, find_empty_location                                *)
(***************************************************************************)
\* seeded fault: the row is not checked
is_valid_no_row(b, row, col, num) ==
    LET start_row == row - (row % BOX)
        start_col == col - (col % BOX)
    IN  /\ \A x \in 0..(N - 1) : At(b, x, col) # num
        /\ \A i \in 0..(BOX - 1) : \A j \in 0..(BOX - 1) :
               At(b, i + start_row, j + start_col) # num

\* seeded fault: the column is not checked
is_valid_no_column(b, row, col, num) ==
    LET start_row == row - (row % BOX)
        start_col == col - (col % BOX)
    IN  /\ \A x \in 0..(N - 1) : At(b, row, x) # num
        /\ \A i \in 0..(BOX - 1) : \A j \in 0..(BOX - 1) :
               At(b, i + start_row, j + start_col) # num

is_valid(b, row, col, num) ==
    LET start_row == row - (row % BOX)
        start_col == col - (col % BOX)
    IN  /\ \A x \in 0..(N - 1) : At(b, row, x) # num
        /\ \A x \in 0..(N - 1) : At(b, x, col) # num
        /\ \A i \in 0..(BOX - 1) : \A j \in 0..(BOX - 1) :
               At(b, i + start_row, j + start_col) # num

EmptyCells(b) ==
    {p \in (0..(N - 1)) \X (0..(N - 1)) : At(b, p[1], p[2]) = 0}

\* seeded fault: != 0 for == 0
find_empty_location_nonzero(b) ==
    LET E == ((0..(N - 1)) \X (0..(N - 1))) \ EmptyCells(b) IN
    IF E = {} THEN <<>>
    ELSE CHOOSE p \in E :
           \A q \in E : p[1] < q[1] \/ (p[1] = q[1] /\ p[2] <= q[2])

\* first 0 cell in row-major order, <<>> for None
find_empty_location(b) ==
    LET E == EmptyCells(b) IN
    IF E = {} THEN <<>>
    ELSE CHOOSE p \in E :
           \A q \in E : p[1] < q[1] \/ (p[1] = q[1] /\ p[2] <= q[2])

(***************************************************************************)
(* Requests                                                                *)
(***************************************************************************)
\* the example puzzle of the front end
Example ==
    << <<5, 3, 0, 0, 7, 0, 0, 0, 0>>,
       <<6, 0, 0, 1, 9, 5, 0, 0, 0>>,
       <<0, 9, 8, 0, 0, 0, 0, 6, 0>>,
       <<8, 0, 0, 0, 6, 0, 0, 0, 3>>,
       <<4, 0, 0, 8, 0, 3, 0, 0, 1>>,
       <<7, 0, 0, 0, 2, 0, 0, 0, 6>>,
       <<0, 6, 0, 0, 0, 0, 2, 8, 0>>,
       <<0, 0, 0, 4, 1, 9, 0, 0, 5>>,
       <<0, 0, 0, 0, 8, 0, 0, 7, 9>> >>

\* its completed grid
Solution ==
    << <<5, 3, 4, 6, 7, 8, 9, 1, 2>>,
       <<6, 7, 2, 1, 9, 5, 3, 4, 8>>,
       <<1, 9, 8, 3, 4, 2, 5, 6, 7>>,
       <<8, 5, 9, 7, 6, 1, 4, 2, 3>>,
       <<4, 2, 6, 8, 5, 3, 7, 9, 1>>,
       <<7, 1, 3, 9, 2, 4, 8, 5, 6>>,
       <<9, 6, 1, 5, 3, 7, 2, 8, 4>>,
       <<2, 8, 7, 4, 1, 9, 6, 3, 5>>,
       <<3, 4, 5, 2, 8, 6, 1, 7, 9>> >>

\* cells that an input may leave empty (the first NumBlank of them)
BlankCells ==
    << <<1, 5>>, <<6, 3>>, <<6, 4>>, <<6, 8>>, <<7, 3>>, <<7, 8>>, <<4, 5>>,
       <<3, 5>> >>

Blankable == {BlankCells[k] : k \in 1..NumBlank}

\* cells whose given digit an input may replace by any digit
PerturbCells == {<<6, 5>>}

Perturbations ==
    {<<>>} \cup {<<p[1], p[2], v>> : p \in PerturbCells, v \in 1..N}

\* the board [[...], ...] of the digits g
Board(g) == List_([i \in 1..N |-> List_([j \in 1..N |-> Int_(g[i][j])])])

\* the completed grid with the cells E emptied and the perturbation p
Grid(E, p) ==
    Board([i \in 1..N |-> [j \in 1..N |->
        IF p # <<>> /\ p[1] = i - 1 /\ p[2] = j - 1 THEN p[3]
        ELSE IF <<i - 1, j - 1>> \in E THEN 0
        ELSE Solution[i][j]]])

WellFormed ==
    {Board(Example)}
    \cup {Grid(E, p) : E \in SUBSET Blankable, p \in Perturbations}

\* malformations of a candidate board
DefectRows == {0, 1}

DefectCells == {<<0, 0>>, <<1, 8>>}

Defects ==
    {<<"dict">>, <<"short">>, <<"long">>}
    \cup {<<k, i>> : k \in {"rowdict", "rowshort", "rowlong"}, i \in DefectRows}
    \cup {<<k, p[1], p[2]>> :
            k \in {"float", "bool", "neg", "big"}, p \in DefectCells}

ApplyDefect(b, d) ==
    LET k == d[1]
        rowok(i) == i < len(b) /\ isinstance_list(b.items[i + 1])
        cellok(i, j) == rowok(i) /\ j < len(b.items[i + 1])
    IN
    IF ~isinstance_list(b) THEN b
    ELSE IF k = "dict" THEN Dict_
    ELSE IF k = "short" THEN List_(SubSeq(b.items, 1, len(b) - 1))
    ELSE IF k = "long" THEN List_(Append(b.items, b.items[1]))
    ELSE IF k = "rowdict" /\ rowok(d[2])
         THEN [b EXCEPT !.items[d[2] + 1] = Dict_]
    ELSE IF k = "rowshort" /\ rowok(d[2])
         THEN [b EXCEPT !.items[d[2] + 1] = List_(SubSeq(@.items, 1, Len(@.items) - 1))]
    ELSE IF k = "rowlong" /\ rowok(d[2])
         THEN [b EXCEPT !.items[d[2] + 1] = List_(Append(@.items, Int_(0)))]
    ELSE IF k = "float" /\ cellok(d[2], d[3])
         THEN [b EXCEPT !.items[d[2] + 1].items[d[3] + 1] = Float_]
    ELSE IF k = "bool" /\ cellok(d[2], d[3])
         THEN [b EXCEPT !.items[d[2] + 1].items[d[3] + 1] = Bool_(1)]
    ELSE IF k = "neg" /\ cellok(d[2], d[3])
         THEN [b EXCEPT !.items[d[2] + 1].items[d[3] + 1] = Int_(-1)]
    ELSE IF k = "big" /\ cellok(d[2], d[3])
         THEN [b EXCEPT !.items[d[2] + 1].items[d[3] + 1] = Int_(N + 1)]
    ELSE b

RECURSIVE Malformed(_)
Malformed(n) ==
    IF n = 0 THEN {Grid({}, <<>>)}
    ELSE LET S == Malformed(n - 1) IN
         S \cup {ApplyDefect(b, d) : b \in S, d \in Defects}

Candidates == WellFormed \cup Malformed(MaxDefects)

Request(kind, hasBoard, b) == [kind |-> kind, hasBoard |-> hasBoard, board |-> b]

\* request bodies: no JSON, a mapping without "board", a list that contains
\* the string "board", a mapping with a candidate board
Requests ==
    {Request("None", FALSE, None), Request("dict", FALSE, None),
     Request("list", TRUE, None)}
    \cup {Request("dict", TRUE, b) : b \in Candidates}

(***************************************************************************)
(* app.py: solve (the /solve handler) and solver.py: solve_sudoku          *)
(***************************************************************************)
Reply(status, success, text, error, original, solution) ==
    [status |-> status, success |-> success,
     message |-> [text |-> text, error |-> error],
     original |-> original, solution |-> solution]

NoReply == Reply(0, FALSE, "", NoMsg, None, None)

\* seeded fault: no deepcopy, the original is the board the solver wrote
solved_reply_alias(original, solution) ==
    Reply(200, TRUE, "Puzzle solved successfully", NoMsg, solution, solution)

solved_reply(original, solution) ==
    Reply(200, TRUE, "Puzzle solved successfully", NoMsg, original, solution)

unsolved_reply(original) ==
    Reply(200, FALSE, "No solution exists for this puzzle", NoMsg, original, None)

Frame(empty, num) == [empty |-> empty, num |-> num]

Top == stack[Len(stack)]

Pop == SubSeq(stack, 1, Len(stack) - 1)

Init ==
    /\ data \in Requests
    /\ pc = "handler"
    /\ board = None
    /\ original_board = None
    /\ stack = <<>>
    /\ retval = FALSE
    /\ response = NoReply

\* if not data or 'board' not in data
HandleMissing ==
    /\ pc = "handler"
    /\ data.kind = "None" \/ ~data.hasBoard
    /\ response' = Reply(400, FALSE, "Missing \"board\" in request body",
                         NoMsg, None, None)
    /\ pc' = "done"
    /\ UNCHANGED <<data, board, original_board, stack, retval>>

\* data['board'] on a list raises TypeError, caught by except Exception
HandleException ==
    /\ pc = "handler"
    /\ data.kind = "list" /\ data.hasBoard
    /\ response' = Reply(500, FALSE, "Server error: {str(e)}", NoMsg, None, None)
    /\ pc' = "done"
    /\ UNCHANGED <<data, board, original_board, stack, retval>>

\* board = data['board']; validate_board rejects
HandleInvalid ==
    /\ pc = "handler"
    /\ data.kind = "dict" /\ data.hasBoard
    /\ LET v == validate_board(data.board) IN
         /\ ~v[1]
         /\ response' = Reply(400, FALSE, "Invalid board: {error_msg}", v[2],
                              None, None)
    /\ board' = data.board
    /\ pc' = "done"
    /\ UNCHANGED <<data, original_board, stack, retval>>

\* board = data['board']; validate_board accepts; original_board = deepcopy
HandleValid ==
    /\ pc = "handler"
    /\ data.kind = "dict" /\ data.hasBoard
    /\ validate_board(data.board)[1]
    /\ board' = data.board
    /\ original_board' = data.board
    /\ pc' = "call"
    /\ UNCHANGED <<data, stack, retval, response>>

\* entry of solve_sudoku: empty = find_empty_location(board)
Call ==
    /\ pc = "call"
    /\ stack' = Append(stack, Frame(find_empty_location(board), 1))
    /\ pc' = "body"
    /\ UNCHANGED <<data, board, original_board, retval, response>>

\* if not empty: return True
ReturnSolved ==
    /\ pc = "body"
    /\ Top.empty = <<>>
    /\ stack' = Pop
    /\ retval' = TRUE
    /\ pc' = "ret"
    /\ UNCHANGED <<data, board, original_board, response>>

\* seeded fault: the recursive call without the placement
Place_no_assignment ==
    /\ pc = "body"
    /\ Top.empty # <<>>
    /\ Top.num <= N
    /\ is_valid(board, Top.empty[1], Top.empty[2], Top.num)
    /\ pc' = "call"
    /\ UNCHANGED <<data, board, original_board, stack, retval, response>>

\* is_valid holds: board[row][col] = num, then the recursive call
Place ==
    /\ pc = "body"
    /\ Top.empty # <<>>
    /\ Top.num <= N
    /\ is_valid(board, Top.empty[1], Top.empty[2], Top.num)
    /\ board' = SetCell(board, Top.empty[1], Top.empty[2], Top.num)
    /\ pc' = "call"
    /\ UNCHANGED <<data, original_board, stack, retval, response>>

\* is_valid fails: next num
Skip ==
    /\ pc = "body"
    /\ Top.empty # <<>>
    /\ Top.num <= N
    /\ ~is_valid(board, Top.empty[1], Top.empty[2], Top.num)
    /\ stack' = [stack EXCEPT ![Len(stack)].num = @ + 1]
    /\ UNCHANGED <<data, pc, board, original_board, retval, response>>

\* range(1, 10) is exhausted: return False
Exhaust ==
    /\ pc = "body"
    /\ Top.empty # <<>>
    /\ Top.num > N
    /\ stack' = Pop
    /\ retval' = FALSE
    /\ pc' = "ret"
    /\ UNCHANGED <<data, board, original_board, response>>

\* the recursive call returned True: return True
Propagate ==
    /\ pc = "ret"
    /\ stack # <<>>
    /\ retval
    /\ stack' = Pop
    /\ UNCHANGED <<data, pc, board, original_board, retval, response>>

\* seeded fault: the placement is not reset
Backtrack_no_reset ==
    /\ pc = "ret"
    /\ stack # <<>>
    /\ ~retval
    /\ stack' = [stack EXCEPT ![Len(stack)].num = @ + 1]
    /\ pc' = "body"
    /\ UNCHANGED <<data, board, original_board, retval, response>>

\* the recursive call returned False: board[row][col] = 0, next num
Backtrack ==
    /\ pc = "ret"
    /\ stack # <<>>
    /\ ~retval
    /\ board' = SetCell(board, Top.empty[1], Top.empty[2], 0)
    /\ stack' = [stack EXCEPT ![Len(stack)].num = @ + 1]
    /\ pc' = "body"
    /\ UNCHANGED <<data, original_board, retval, response>>

\* the handler's call of solve_sudoku returned
Respond ==
    /\ pc = "ret"
    /\ stack = <<>>
    /\ response' = IF retval THEN solved_reply(original_board, board)
                   ELSE unsolved_reply(original_board)
    /\ pc' = "done"
    /\ UNCHANGED <<data, board, original_board, stack, retval>>

Next ==
    \/ HandleMissing
    \/ HandleException
    \/ HandleInvalid
    \/ HandleValid
    \/ Call
    \/ ReturnSolved
    \/ Place
    \/ Skip
    \/ Exhaust
    \/ Propagate
    \/ Backtrack
    \/ Respond

Spec == Init /\ [][Next]_vars

\* the handler is one synchronous computation: it keeps running until it
\* has answered
FairSpec == Spec /\ WF_vars(Next)

(***************************************************************************)
(* Vocabulary of the properties                                            *)
(***************************************************************************)
HasBoard == data.kind = "dict" /\ data.hasBoard

\* the request's board as it arrived, before anything ran on it
Submitted == data.board

Accepted == HasBoard /\ validate_board(Submitted)[1]

\* solve_sudoku is running, or has returned to the handler
Solving == pc \in {"call", "body", "ret"}

Answered == pc = "done" /\ response.status = 200

Cells == (1..N) \X (1..N)

Rows == {{<<i, j>> : j \in 1..N} : i \in 1..N}

Cols == {{<<i, j>> : i \in 1..N} : j \in 1..N}

\* the box of a cell is the one whose top-left corner is
\* (row - row % 3, col - col % 3), rows and columns counted from 0
Corner(k) == (k - 1) - ((k - 1) % BOX)

Boxes ==
    {{p \in Cells : Corner(p[1]) = Corner(q[1]) /\ Corner(p[2]) = Corner(q[2])} :
        q \in Cells}

Units == Rows \cup Cols \cup Boxes

\* no digit twice in a row, a column or a box
ConflictFree(g) ==
    \A u \in Units :
        LET filled == {p \in u : g[p[1]][p[2]] # 0} IN
        Cardinality({g[p[1]][p[2]] : p \in filled}) = Cardinality(filled)

\* every row, column and box holds each digit 1..9 exactly once
IsSolved(g) ==
    \A u \in Units : \A d \in 1..N :
        Cardinality({p \in u : g[p[1]][p[2]] = d}) = 1

ZeroCount(g) == Cardinality({p \in Cells : g[p[1]][p[2]] = 0})

\* digits that no cell of the same row, column or box holds in g
Options(g, p) ==
    (1..N) \ {g[q[1]][q[2]] : q \in UNION {u \in Units : p \in u}}

\* g with digit d in cell p
Put(g, p, d) ==
    [i \in 1..N |-> [j \in 1..N |-> IF <<i, j>> = p THEN d ELSE g[i][j]]]

\* a and b hold the same number in every cell
Same(a, b) == \A p \in Cells : a[p[1]][p[2]] = b[p[1]][p[2]]

\* the ways to fill the cells es of g, one after the other, with a digit
\* that the cell's row, column and box do not hold yet
RECURSIVE Fills(_, _)
Fills(g, es) ==
    IF es = {} THEN {g}
    ELSE LET e == CHOOSE x \in es : TRUE IN
         UNION {Fills(Put(g, e, d), es \ {e}) : d \in Options(g, e)}

\* the valid completions of g: solved grids that agree with g on its givens
Completions(g) ==
    {c \in Fills(g, {p \in Cells : g[p[1]][p[2]] = 0}) : IsSolved(c)}

Flat(g) == [k \in 1..(N * N) |-> g[((k - 1) \div N) + 1][((k - 1) % N) + 1]]

\* a precedes b when read in row-major order
LexLess(a, b) ==
    \E k \in 1..(N * N) :
        /\ Flat(a)[k] < Flat(b)[k]
        /\ \A m \in 1..(k - 1) : Flat(a)[m] = Flat(b)[m]

(***************************************************************************)
(* Solver properties                                                       *)
(***************************************************************************)

\* C1: whenever solve_sudoku returns true on an accepted board, every row,
\* every column and every box of the board it leaves holds each digit 1..9
\* exactly once.
C1_TrueMeansSolved ==
    (Answered /\ response.success) => IsSolved(Vals(board))

\* C2: whenever the top-level call returns false, the board equals the board
\* before the call, cell for cell.
C2_FailureRestores ==
    /\ (pc = "ret" /\ stack = <<>> /\ ~retval) => Same(Vals(board), Vals(Submitted))
    /\ (Answered /\ ~response.success) => Same(Vals(board), Vals(Submitted))

\* a failed search that had placed a digit in its first empty cell
C2_Witness ==
    /\ Answered /\ ~response.success
    /\ Same(Vals(board), Vals(Submitted))
    /\ LET e == find_empty_location(Submitted) IN
         e # <<>> /\ \E d \in 1..N : is_valid(Submitted, e[1], e[2], d)

\* C6 (depth): a call of solve_sudoku nested under n active calls starts on
\* a board with n fewer empty cells than the input, one fewer than its
\* caller started on; so the number of nested recursive calls never exceeds
\* the number of empty cells of the input, which is at most 81.
C6_Depth ==
    /\ pc = "call" =>
         ZeroCount(Vals(board)) = ZeroCount(Vals(Submitted)) - Len(stack)
    /\ (Solving /\ stack # <<>>) =>
         /\ Len(stack) - 1 <= ZeroCount(Vals(Submitted))
         /\ ZeroCount(Vals(Submitted)) <= N * N

\* C6: for every accepted board solve_sudoku terminates with true or false,
\* and the recursion depth stays within the number of empty cells.
C6_Terminates ==
    /\ []C6_Depth
    /\ Accepted ~> Answered

\* the innermost call of a search as deep as the input has empty cells
C6_Witness ==
    /\ pc = "body"
    /\ ZeroCount(Vals(Submitted)) >= 3
    /\ Len(stack) - 1 = ZeroCount(Vals(Submitted))

\* C8: solve_sudoku writes only cells that were 0 in the input: in every
\* state of the search and at its end each given cell holds its input
\* value; a board with no empty cell is returned true and unchanged.
C8_GivensKept ==
    /\ (Solving \/ Answered) =>
         \A p \in Cells :
             Vals(Submitted)[p[1]][p[2]] # 0 =>
                 Vals(board)[p[1]][p[2]] = Vals(Submitted)[p[1]][p[2]]
    /\ (Answered /\ ZeroCount(Vals(Submitted)) = 0) =>
         response.success /\ board = Submitted

\* a search that has filled empty cells and is about to fill another
C8_Witness ==
    /\ pc = "body"
    /\ Len(stack) >= 3
    /\ Top.empty # <<>>
    /\ ~Same(Vals(board), Vals(Submitted))

\* C9: on a board whose givens are conflict-free, solve_sudoku returns true
\* iff a valid completion exists, and the board it then leaves is the
\* completion that comes first in row-major lexicographic order.
C9_FirstCompletion ==
    (Answered /\ ConflictFree(Vals(Submitted))) =>
        LET all == Completions(Vals(Submitted)) IN
        /\ response.success <=> all # {}
        /\ response.success =>
             /\ \E c \in all : Same(c, Vals(board))
             /\ \A c \in all : Same(c, Vals(board)) \/ LexLess(Vals(board), c)

\* a solved board that had more than one valid completion
C9_Witness ==
    /\ Answered /\ response.success
    /\ ConflictFree(Vals(Submitted))
    /\ Cardinality(Completions(Vals(Submitted))) >= 2

\* C10: from a conflict-free board, every board of the search (after each
\* placement, after each reset) is conflict-free.
C10_StaysConflictFree ==
    (Solving \/ Answered) =>
        (ConflictFree(Vals(board)) \/ ~ConflictFree(Vals(Submitted)))

\* back in the loop after a placement was reset to 0
C10_Witness ==
    /\ pc = "body"
    /\ Top.empty # <<>>
    /\ Top.num > 1
    /\ At(board, Top.empty[1], Top.empty[2]) = 0
    /\ is_valid(board, Top.empty[1], Top.empty[2], Top.num - 1)
    /\ ConflictFree(Vals(Submitted))

(***************************************************************************)
(* Validator and handler properties                                        *)
(***************************************************************************)
Least(S) == CHOOSE x \in S : \A y \in S : x <= y

RowMalformed(b, i) ==
    ~isinstance_list(b.items[i + 1]) \/ len(b.items[i + 1]) # N

RowMsg(b, i) ==
    IF ~isinstance_list(b.items[i + 1])
    THEN Msg("Row {i} must be a list", <<i>>)
    ELSE Msg("Row {i} must have 9 columns", <<i>>)

CellBad(b, i, j) ==
    LET cell == b.items[i + 1].items[j + 1] IN
    ~isinstance_int(cell) \/ cell.val < 0 \/ cell.val > 9

CellMsg(b, i, j) ==
    IF ~isinstance_int(b.items[i + 1].items[j + 1])
    THEN Msg("Cell [{i}][{j}] must be an integer", <<i, j>>)
    ELSE Msg("Cell [{i}][{j}] must be between 0 and 9", <<i, j>>)

RowBad(b, i) == RowMalformed(b, i) \/ \E j \in 0..(N - 1) : CellBad(b, i, j)

NotAList == <<FALSE, Msg("Board must be a list", <<>>)>>

NotNineRows == <<FALSE, Msg("Board must have 9 rows", <<>>)>>

\* the first violation when rule 3 is checked for all rows before rule 4 is
\* checked for any cell
RowsThenCells(b) ==
    IF ~isinstance_list(b) THEN NotAList
    ELSE IF len(b) # N THEN NotNineRows
    ELSE LET R == {i \in 0..(N - 1) : RowMalformed(b, i)} IN
         IF R # {} THEN <<FALSE, RowMsg(b, Least(R))>>
         ELSE LET C == {k \in 0..(N * N - 1) : CellBad(b, k \div N, k % N)} IN
              IF C = {} THEN <<TRUE, NoMsg>>
              ELSE <<FALSE, CellMsg(b, Least(C) \div N, Least(C) % N)>>

\* the first violation when each row's shape and then its cells are checked
\* before the next row
RowByRow(b) ==
    IF ~isinstance_list(b) THEN NotAList
    ELSE IF len(b) # N THEN NotNineRows
    ELSE LET R == {i \in 0..(N - 1) : RowBad(b, i)} IN
         IF R = {} THEN <<TRUE, NoMsg>>
         ELSE LET i == Least(R) IN
              IF RowMalformed(b, i) THEN <<FALSE, RowMsg(b, i)>>
              ELSE <<FALSE,
                     CellMsg(b, i, Least({j \in 0..(N - 1) : CellBad(b, i, j)}))>>

Rejected == pc = "done" /\ HasBoard /\ response.status = 400

\* C3 as stated: validate_board reports the first violation in the order
\* rule 1, rule 2, rule 3 for rows 0..8, rule 4 for the cells in row-major
\* order; a candidate with a malformed row gets a 'Row' message.
C3_RowsBeforeCells ==
    (pc = "handler" /\ HasBoard) =>
        validate_board(Submitted) = RowsThenCells(Submitted)

\* C3 amended: validate_board reports the first violation in the order rule
\* 1, rule 2, then for each row i in turn rule 3 for row i followed by rule 4
\* for the cells of row i; a malformed row i gets a 'Row' message unless an
\* earlier row is malformed or holds a bad cell.
C3_RowByRow ==
    /\ (pc = "handler" /\ HasBoard) =>
         validate_board(Submitted) = RowByRow(Submitted)
    /\ Rejected => response.message.error = RowByRow(Submitted)[2]

\* a candidate with a malformed row, rejected for a cell of an earlier row
C3_Witness ==
    /\ Rejected
    /\ isinstance_list(Submitted) /\ len(Submitted) = N
    /\ \E i \in 0..(N - 1) : RowMalformed(Submitted, i)
    /\ Len(response.message.error.args) = 2

\* C4 as stated: every candidate that is not a 9-element outer container is
\* rejected with 'Board must have 9 rows'.
C4_AlwaysRowCount ==
    (HasBoard /\ (~isinstance_list(Submitted) \/ len(Submitted) # N)) =>
        validate_board(Submitted) = NotNineRows

\* C4 amended: a candidate that is not a list is rejected with 'Board must
\* be a list'; a list whose length is not 9 with 'Board must have 9 rows'.
C4_ListThenRowCount ==
    /\ (HasBoard /\ ~isinstance_list(Submitted)) =>
         /\ validate_board(Submitted) = NotAList
         /\ pc = "done" => response.message.error = NotAList[2]
    /\ (HasBoard /\ isinstance_list(Submitted) /\ len(Submitted) # N) =>
         /\ validate_board(Submitted) = NotNineRows
         /\ pc = "done" => response.message.error = NotNineRows[2]

\* a mapping, rejected as not a list
C4_Witness ==
    /\ Rejected
    /\ Submitted.kind = "dict"
    /\ response.message.error.fmt = "Board must be a list"

\* C7: the handler calls solve_sudoku only after validate_board accepted the
\* board; a rejected board is answered with status 400 and the validation
\* message, the solver not called and the board untouched; after the solver
\* ran, the response's original is the board as submitted.
C7_ValidateThenSolve ==
    /\ (Solving \/ stack # <<>> \/ original_board # None) => Accepted
    /\ (pc = "done" /\ HasBoard /\ ~Accepted) =>
         /\ response = Reply(400, FALSE, "Invalid board: {error_msg}",
                             validate_board(Submitted)[2], None, None)
         /\ board = Submitted
         /\ original_board = None
         /\ stack = <<>>
    /\ (pc = "done" /\ Accepted) =>
         /\ response.status = 200
         /\ response.original = Submitted

\* a solved request whose board the solver changed
C7_Witness ==
    /\ Answered /\ response.success
    /\ response.original = Submitted
    /\ response.solution = board
    /\ ~Same(Vals(board), Vals(Submitted))

====
